---- MODULE Spec2Model ----
(***************************************************************************)
(* Verification model of the simulation scripts under src/simulations.     *)
(*                                                                         *)
(* Part I   power_density_sim.py    relaxation solver of the textile grid  *)
(* Part II  sequinoid_network_sim.py  Kuramoto synchronisation loop        *)
(* Part III thermal_safety_sim.py   skin temperature rise                  *)
(* Part IV  power_density_sim.py    power budget                           *)
(* Part V   memory_map_sim.py       memory totals and the address map      *)
(* Part VI  metamaterial_rectenna_sim.py  harvest budget                   *)
(* Part VII spark_gap_bio_sim.py    Paschen breakdown table                *)
(* Part VIII the table scripts run side by side                           *)
(* Part IX  sequinoid_network_sim.py  ATP trigger table                    *)
(* Part X   metamaterial_rectenna_sim.py  stochastic resonance sweep       *)
(*                                                                         *)
(* Real quantities are carried as fixed-point integers; every unit is      *)
(* stated where the quantity is defined.                                   *)
(***************************************************************************)
EXTENDS Integers, Sequences, FiniteSets, TLC

VARIABLES
    \* ---- power_density_sim.py ----
    V,            \* grid voltages, microvolts, indexed by <<row, col>>
    V_old,        \* snapshot taken at the start of the current iteration
    iteration,    \* number of completed iterations of the solver loop
    cur,          \* <<i, j>>: the interior cell the sweep visits next
    grid_pc,      \* position of the script: "loop", "sweep", "sinks", "done"
    sink_status,  \* the Status column printed for each sink (by index), <<>> before
    v_del,        \* report loop: the delivered voltage being classified, microvolts
    status,       \* report loop: the status computed for v_del, "" before
    \* ---- sequinoid_network_sim.py, PART 4 ----
    omega,        \* natural frequencies, sixths of a turn per millisecond
    run,          \* index into the list of coupling ratios of the current run
    K,            \* coupling strength of the current run
    theta,        \* phases, sixths of a turn (not reduced modulo a turn)
    step,         \* the time-stepping loop's counter
    r,            \* the order parameter last computed, thousandths
    r_history,    \* the order parameters recorded in the current run
    sync_time,    \* <<>> for None, <<t>> for the time t in milliseconds
    coupling,     \* the coupling terms of the last time step
    r_final,      \* printed row: final coherence, thousandths
    sync_str,     \* printed row: [text |-> ">5.0" or "%.2f", centis |-> hundredths of a second]
    status_K,     \* printed row: LOCKED / PARTIAL / INCOHERENT ("" before the first row)
    kura_pc,      \* "idle" (not run), "run", "measure", "dynamics", "done"
    \* ---- thermal_safety_sim.py, PART 2 ----
    layer,        \* index of the next layer the resistance loop adds
    R_total,      \* thermal resistance summed so far, hundredths of K/W
    P_th,         \* the dissipated power of the row, units of 10 microwatts
    dT,           \* temperature rise of the row, hundredths of a kelvin
    T_skin,       \* skin temperature of the row, hundredths of a degree Celsius
    status_T,     \* Status column of the row ("" before the row is computed)
    thermal_pc,   \* "idle" (not run), "layers", "row", "done"
    \* ---- power_density_sim.py, PART 1 ----
    sources,      \* the table of sources, records [P_uW, type], hundredths of a microwatt
    sinks,        \* the table of sinks, records [P_uW], hundredths of a microwatt
    total_harvest,   \* hundredths of a microwatt
    total_sink_avg,  \* hundredths of a microwatt
    sink,         \* index of the next sink the loop adds
    margin,       \* hundredths of a microwatt
    margin_label, \* "(OK)" or "(DEFICIT)", "" before it is printed
    budget_pc,    \* "idle" (not run), "harvest", "sinks", "done"
    \* ---- memory_map_sim.py ----
    nodes,        \* the table of node types, records [name, count, sram_KB, flash_KB, mram_KB]
    node_type,    \* index of the next node type the totals loop visits
    table_rows,   \* the rows printed so far, records [name, count, total_per]
    total_sram,   \* KB
    total_flash,  \* KB
    total_mram,   \* KB
    total_nodes,
    total_all,    \* KB
    entry,        \* index of the next row of addr_map to print
    printed,      \* the rows of the address map printed so far
    memory_pc,    \* "idle" (not run), "totals", "map", "done"
    \* ---- metamaterial_rectenna_sim.py, PART 6 ----
    harvest,      \* the table of candidate sources, records [name, P_uW, real]
    h_row,        \* index of the next row the loop visits
    harvest_rows, \* the rows printed so far, records [name, harv, status]
    total_real,   \* [uW |-> whole microwatts, e7 |-> 10^-7 microwatts, 0 .. 10^7 - 1]
    totals,       \* the three totals printed, whole microwatts; <<>> before
    harvest_pc,   \* "idle" (not run), "rows", "done"
    \* ---- spark_gap_bio_sim.py, Paschen table ----
    d_um,         \* the gap width of the row, tenths of a micrometre
    V_break,      \* [inf |-> the float is +inf, volts |-> whole volts otherwise]
    paschen_pc,   \* "idle" (not run), "row", "done"
    \* ---- sequinoid_network_sim.py, PART 5 ----
    P_stim,       \* the stimulation power of the row, microwatts
    t_threshold,  \* time to threshold, microseconds
    amplification,  \* [whole |-> whole part, e15 |-> fraction in 10^-15]
    n_atp,        \* the ATP Triggered column
    t_str,        \* [tenths |-> the number shown, in tenths, unit |-> "ms", "s", "min"]
    atp_pc,       \* "idle" (not run), "row", "done"
    \* ---- metamaterial_rectenna_sim.py, PART 4 ----
    D_values,     \* the noise levels of the sweep, hundredths
    D_row,        \* index of the next noise level the loop visits
    snr_max,      \* [positive |-> FALSE] for 0, else [positive |-> TRUE, ln |-> ln(snr)]
    D_optimal,    \* hundredths
    sr_rows,      \* the rows printed so far, records [D, snr, status]
    sr_pc         \* "idle" (not run), "rows", "done"

gridVars == <<V, V_old, iteration, cur, grid_pc, sink_status>>

reportVars == <<v_del, status>>

kuraVars == <<omega, run, K, theta, step, r, r_history, sync_time, coupling,
              r_final, sync_str, status_K, kura_pc>>

thermalVars == <<layer, R_total, P_th, dT, T_skin, status_T, thermal_pc>>

\* The variables of the scripts that print a table from a few literals.
budgetVars == <<sources, sinks, total_harvest, total_sink_avg, sink, margin,
                margin_label, budget_pc>>

memoryVars == <<nodes, node_type, table_rows, total_sram, total_flash, total_mram,
                total_nodes, total_all, entry, printed, memory_pc>>

harvestVars == <<harvest, h_row, harvest_rows, total_real, totals, harvest_pc>>

paschenVars == <<d_um, V_break, paschen_pc>>

atpVars == <<P_stim, t_threshold, amplification, n_atp, t_str, atp_pc>>

resonanceVars == <<D_values, D_row, snr_max, D_optimal, sr_rows, sr_pc>>

\* The variables of the two sweeps: ATP trigger and stochastic resonance.
sweepVars == <<atpVars, resonanceVars>>

tableVars == <<thermalVars, budgetVars, memoryVars, harvestVars, paschenVars, sweepVars>>

vars == <<gridVars, reportVars, kuraVars, tableVars>>

\* A script that is not run: its variables keep these values.
ThermalIdle ==
    /\ layer = 1 /\ R_total = 0 /\ P_th = 0 /\ dT = 0 /\ T_skin = 0
    /\ status_T = "" /\ thermal_pc = "idle"

BudgetIdle ==
    /\ sources = <<>> /\ sinks = <<>> /\ total_harvest = 0 /\ total_sink_avg = 0
    /\ sink = 1 /\ margin = 0 /\ margin_label = "" /\ budget_pc = "idle"

MemoryIdle ==
    /\ nodes = <<>> /\ node_type = 1 /\ table_rows = <<>> /\ total_sram = 0
    /\ total_flash = 0 /\ total_mram = 0 /\ total_nodes = 0 /\ total_all = 0
    /\ entry = 1 /\ printed = <<>> /\ memory_pc = "idle"

HarvestIdle ==
    /\ harvest = <<>> /\ h_row = 1 /\ harvest_rows = <<>>
    /\ total_real = [uW |-> 0, e7 |-> 0] /\ totals = <<>> /\ harvest_pc = "idle"

PaschenIdle ==
    d_um = 0 /\ V_break = [inf |-> FALSE, volts |-> 0] /\ paschen_pc = "idle"

AtpIdle ==
    /\ P_stim = 0 /\ t_threshold = 0 /\ amplification = [whole |-> 0, e15 |-> 0]
    /\ n_atp = 0 /\ t_str = [tenths |-> 0, unit |-> ""] /\ atp_pc = "idle"

ResonanceIdle ==
    /\ D_values = <<>> /\ D_row = 1 /\ snr_max = [positive |-> FALSE, ln |-> 0]
    /\ D_optimal = 0 /\ sr_rows = <<>> /\ sr_pc = "idle"

SweepsIdle == AtpIdle /\ ResonanceIdle

TablesIdle ==
    /\ ThermalIdle /\ BudgetIdle /\ MemoryIdle /\ HarvestIdle /\ PaschenIdle
    /\ SweepsIdle

(***************************************************************************)
(* Part I.  power_density_sim.py, PART 2: IR drop on the textile grid      *)
(***************************************************************************)

\* Grid size. The script uses 30; the zones, the source and the sinks below
\* are placed at the same fractions of the side, so that N = 30 gives back
\* exactly the script's positions.
N == 7

\* range(2000)
Iterations == 2000

\* 3.3 V in microvolts
SupplyUV == 3300000

Cells == (0 .. N - 1) \X (0 .. N - 1)

\* range(1, N-1) x range(1, N-1)
Interior == (1 .. N - 2) \X (1 .. N - 2)

InRows(c, lo, hi) == c[1] >= lo /\ c[1] < hi
InCols(c, lo, hi) == c[2] >= lo /\ c[2] < hi

\* Sheet resistance in ohm/square. The slices are assigned in this order in
\* the script, so a later zone overrides an earlier one:
\*   [12:18, 10:20] = 5   [0:3, :] = 3   [25:30, 12:18] = 2
R_sheet(c) ==
    IF InRows(c, (5 * N) \div 6, N) /\ InCols(c, (2 * N) \div 5, (3 * N) \div 5) THEN 2
    ELSE IF InRows(c, 0, (N + 9) \div 10) THEN 3
    ELSE IF InRows(c, (2 * N) \div 5, (3 * N) \div 5) /\ InCols(c, N \div 3, (2 * N) \div 3) THEN 5
    ELSE 1

\* (15, 28)
source_pos == <<N \div 2, N - 2>>

\* (x, y, I_mA); the current is carried in hundredths of a milliampere.
sink_positions ==
    << [x |-> N \div 6,       y |-> N \div 6,       I |-> 10],
       [x |-> N \div 6,       y |-> (5 * N) \div 6, I |-> 10],
       [x |-> N \div 2,       y |-> N \div 6,       I |-> 30],
       [x |-> N \div 2,       y |-> N \div 2,       I |-> 20],
       [x |-> (5 * N) \div 6, y |-> N \div 6,       I |-> 5],
       [x |-> (5 * N) \div 6, y |-> (5 * N) \div 6, I |-> 5],
       [x |-> N \div 3,       y |-> N \div 2,       I |-> 15],
       [x |-> (2 * N) \div 3, y |-> N \div 2,       I |-> 10] >>

SinkCell(k) == <<sink_positions[k].x, sink_positions[k].y>>

\* [(-1,0),(1,0),(0,-1),(0,1)]
Neighbours(c) ==
    << <<c[1] - 1, c[2]>>, <<c[1] + 1, c[2]>>, <<c[1], c[2] - 1>>, <<c[1], c[2] + 1>> >>

\* g = 1.0 / R_sheet, in units of 1/30 siemens (30 = lcm of the resistances 1, 2, 3, 5),
\* which leaves the ratio v_sum / g_total as it is.
Conductance(c) == 30 \div R_sheet(c)

\* g_total and v_sum of one cell, accumulated over the four neighbours
g_total(c) ==
    Conductance(Neighbours(c)[1]) + Conductance(Neighbours(c)[2])
        + Conductance(Neighbours(c)[3]) + Conductance(Neighbours(c)[4])

v_sum(W, c) ==
    Conductance(Neighbours(c)[1]) * W[Neighbours(c)[1]]
        + Conductance(Neighbours(c)[2]) * W[Neighbours(c)[2]]
        + Conductance(Neighbours(c)[3]) * W[Neighbours(c)[3]]
        + Conductance(Neighbours(c)[4]) * W[Neighbours(c)[4]]

\* v_sum / g_total, truncated to whole microvolts
WeightedAverage(W, c) == v_sum(W, c) \div g_total(c)

\* Variant: the correction without the local sheet resistance
SinkDropWithoutR(k) == sink_positions[k].I * 10

\* I_mA * R_sheet[x, y] * 0.001 volts = I (in 0.01 mA) * R * 10 microvolts
SinkDrop(k) == sink_positions[k].I * R_sheet(SinkCell(k)) * 10

\* The cell visited after c in the nested loops over i and j
NextCell(c) == IF c[2] < N - 2 THEN <<c[1], c[2] + 1>> ELSE <<c[1] + 1, 1>>

LastCell(c) == c = <<N - 2, N - 2>>

GridInit ==
    /\ V = [c \in Cells |-> IF c = source_pos THEN SupplyUV ELSE 0]
    /\ V_old = [c \in Cells |-> 0]
    /\ iteration = 0
    /\ cur = <<1, 1>>
    /\ grid_pc = "loop"
    /\ sink_status = <<>>

\* for iteration in range(2000): the loop runs while iterations remain and
\* has no other exit.
LoopContinuesUntilConverged == iteration < Iterations /\ (iteration = 0 \/ V # V_old)

LoopContinues == iteration < Iterations

\* for iteration in range(2000): V_old = V.copy()
BeginIteration ==
    /\ grid_pc = "loop"
    /\ LoopContinues
    /\ V_old' = V
    /\ cur' = <<1, 1>>
    /\ grid_pc' = "sweep"
    /\ UNCHANGED <<V, iteration, sink_status>>

\* Variants of the loop body: neighbours read from the grid being written
\* (V_old aliasing V), and the source cell not skipped.
CellUpdateInPlace(c) ==
    IF c = source_pos THEN V
    ELSE IF g_total(c) > 0 THEN [V EXCEPT ![c] = WeightedAverage(V, c)]
    ELSE V

CellUpdateNoSkip(c) ==
    IF g_total(c) > 0 THEN [V EXCEPT ![c] = WeightedAverage(V_old, c)] ELSE V

\* The voltages after the body of the two nested loops has run for cell c
CellUpdate(c) ==
    IF c = source_pos THEN V
    ELSE IF g_total(c) > 0 THEN [V EXCEPT ![c] = WeightedAverage(V_old, c)]
    ELSE V

\* One pass of the body of the nested loops over the interior cells
UpdateCell ==
    /\ grid_pc = "sweep"
    /\ V' = CellUpdate(cur)
    /\ IF LastCell(cur)
         THEN grid_pc' = "sinks" /\ cur' = cur
         ELSE grid_pc' = "sweep" /\ cur' = NextCell(cur)
    /\ UNCHANGED <<V_old, iteration, sink_status>>

\* for x, y, I_mA in sink_positions: V[x, y] -= I_mA * R_sheet[x, y] * 0.001
RECURSIVE SinksApplied(_, _)
SinksApplied(W, k) ==
    IF k > Len(sink_positions) THEN W
    ELSE SinksApplied([W EXCEPT ![SinkCell(k)] = @ - SinkDrop(k)], k + 1)

ApplySinks ==
    /\ grid_pc = "sinks"
    /\ V' = SinksApplied(V, 1)
    /\ iteration' = iteration + 1
    /\ grid_pc' = "loop"
    /\ UNCHANGED <<V_old, cur, sink_status>>

\* status = "OK" if v_del > 1.8 else "LOW" if v_del > 1.2 else "FAIL"
Status(v) ==
    IF v > 1800000 THEN "OK" ELSE IF v > 1200000 THEN "LOW" ELSE "FAIL"

\* The report loop that follows the solver
Report ==
    /\ grid_pc = "loop"
    /\ ~LoopContinues
    /\ sink_status' = [k \in 1 .. Len(sink_positions) |-> Status(V[SinkCell(k)])]
    /\ grid_pc' = "done"
    /\ UNCHANGED <<V, V_old, iteration, cur>>

ReportIdle == v_del = 0 /\ status = ""

KuraIdle ==
    /\ omega = <<>> /\ run = 1 /\ K = 0 /\ theta = <<>> /\ step = 0 /\ r = 0
    /\ r_history = <<>> /\ sync_time = <<>> /\ coupling = <<>>
    /\ r_final = 0 /\ sync_str = [text |-> "", centis |-> 0] /\ status_K = ""
    /\ kura_pc = "idle"

InitGrid == GridInit /\ ReportIdle /\ KuraIdle /\ TablesIdle

NextGrid ==
    \/ BeginIteration /\ UNCHANGED <<reportVars, kuraVars, tableVars>>
    \/ UpdateCell /\ UNCHANGED <<reportVars, kuraVars, tableVars>>
    \/ ApplySinks /\ UNCHANGED <<reportVars, kuraVars, tableVars>>
    \/ Report /\ UNCHANGED <<reportVars, kuraVars, tableVars>>

SpecGrid == InitGrid /\ [][NextGrid]_vars

\* The loop is straight-line code: whenever a step is possible it is taken.
FairSpecGrid == SpecGrid /\ WF_vars(NextGrid)

(***************************************************************************)
(* The classification of the report loop as a function of the delivered    *)
(* voltage alone: v_del ranges over 0 V .. 3.3 V in steps of 10 mV.        *)
(***************************************************************************)
VoltageSamples == {10000 * n : n \in 0 .. 330}

InitStatus ==
    GridInit /\ KuraIdle /\ TablesIdle /\ v_del \in VoltageSamples /\ status = ""

\* v_del = V[x, y]; status = ...
Classify ==
    /\ status = ""
    /\ status' = Status(v_del)
    /\ UNCHANGED <<gridVars, kuraVars, tableVars, v_del>>

NextStatus == Classify

SpecStatus == InitStatus /\ [][NextStatus]_vars


(***************************************************************************)
(* Part II.  sequinoid_network_sim.py, PART 4: Kuramoto synchronisation    *)
(*                                                                         *)
(* Phases are carried on the hexagonal lattice of the circle: one unit is  *)
(* a sixth of a turn. There cos takes the values 1, 1/2, -1/2, -1 and sin  *)
(* the values 0, sqrt(3)/2, -sqrt(3)/2, so the squared length of a sum of  *)
(* unit phasors, (A^2 + 3 B^2) / 4 with A the sum of 2 cos and B the sum   *)
(* of 2 sin / sqrt(3), is an exact rational. Time is in milliseconds and   *)
(* angular velocities are in units per millisecond.                        *)
(***************************************************************************)

\* N_users = 20 in the script
N_users == 2

\* dt = 0.001 s
dt == 1

\* T_sim = 5.0 s in the script; here in milliseconds
T_sim == 5

\* Variant: one time step too many
stepsPlusOne == T_sim \div dt + 1

\* steps = int(T_sim / dt)
steps == T_sim \div dt

\* r_history[-100:] in the script: the number of final steps averaged
TailLen == 2

\* K_c = 2 * (2 * pi * sigma_omega) / pi = 4 * sigma_omega, with sigma_omega = 0.5
K_c == 2

\* [0.0, 0.5, 1.0, 1.5, 2.0, 3.0, 5.0], in halves
K_ratio == <<0, 1, 2, 3, 4, 6, 10>>

Users == 1 .. N_users

\* np.random.normal around the Schumann frequency: the values a draw may give
OmegaValues == {0, 1}

\* np.random.uniform(0, 2 * pi): the values a draw may give
ThetaValues == 0 .. 5

\* 2 * cos(t)
Cos2(t) ==
    CASE t % 6 = 0 -> 2
      [] t % 6 = 1 -> 1
      [] t % 6 = 2 -> -1
      [] t % 6 = 3 -> -2
      [] t % 6 = 4 -> -1
      [] OTHER -> 1

\* sin(t) in units of sqrt(3)/2
Sin(t) ==
    CASE t % 6 = 0 -> 0
      [] t % 6 = 1 -> 1
      [] t % 6 = 2 -> 1
      [] t % 6 = 3 -> 0
      [] t % 6 = 4 -> -1
      [] OTHER -> -1

RECURSIVE SumTo(_, _)
SumTo(f, n) == IF n = 0 THEN 0 ELSE f[n] + SumTo(f, n - 1)

\* np.sum / np.mean of a sequence (the mean truncated to a whole number)
Sum(f) == SumTo(f, Len(f))

Mean(f) == Sum(f) \div Len(f)

\* Quotient rounded toward zero
Quot(a, b) == IF a >= 0 THEN a \div b ELSE -((-a) \div b)

\* Largest k in lo .. hi with k * k <= n (lo * lo <= n)
RECURSIVE RootIn(_, _, _)
RootIn(n, lo, hi) ==
    IF lo >= hi THEN lo
    ELSE IF ((lo + hi + 1) \div 2) * ((lo + hi + 1) \div 2) <= n
           THEN RootIn(n, (lo + hi + 1) \div 2, hi)
           ELSE RootIn(n, lo, ((lo + hi + 1) \div 2) - 1)

Isqrt(n) == RootIn(n, 0, 2000)

\* Variant: the phasors summed but divided by one fewer than their number
OrderParameterOffByOne(th) ==
    Isqrt((1000000 * (Sum([i \in Users |-> Cos2(th[i])]) * Sum([i \in Users |-> Cos2(th[i])])
                      + 3 * Sum([i \in Users |-> Sin(th[i])]) * Sum([i \in Users |-> Sin(th[i])])))
          \div (4 * (N_users - 1) * (N_users - 1)))

\* z = np.mean(np.exp(1j * theta)); r = abs(z), in thousandths (truncated):
\* |z|^2 = (A^2 + 3 B^2) / (4 N^2)
OrderParameter(th) ==
    Isqrt((1000000 * (Sum([i \in Users |-> Cos2(th[i])]) * Sum([i \in Users |-> Cos2(th[i])])
                      + 3 * Sum([i \in Users |-> Sin(th[i])]) * Sum([i \in Users |-> Sin(th[i])])))
          \div (4 * N_users * N_users))

KuraInit ==
    /\ omega \in [Users -> OmegaValues]
    /\ run = 1
    /\ K = 0
    /\ theta = [i \in Users |-> 0]
    /\ step = 0
    /\ r = 0
    /\ r_history = <<>>
    /\ sync_time = <<>>
    /\ coupling = [i \in Users |-> 0]
    /\ r_final = 0
    /\ sync_str = [text |-> "", centis |-> 0]
    /\ status_K = ""
    /\ kura_pc = "run"

\* Variant: the natural frequencies drawn again at the start of every run
StartRunRedrawsOmega ==
    /\ kura_pc = "run"
    /\ run <= Len(K_ratio)
    /\ omega' \in [Users -> OmegaValues]
    /\ K' = (K_ratio[run] * K_c) \div 2
    /\ theta' \in [Users -> ThetaValues]
    /\ r_history' = <<>>
    /\ sync_time' = <<>>
    /\ step' = 0
    /\ kura_pc' = "measure"
    /\ UNCHANGED <<run, r, coupling, r_final, sync_str, status_K>>

\* for K_ratio in [...]: K = K_ratio * K_c; theta = uniform(...); r_history = [];
\* sync_time = None
StartRun ==
    /\ kura_pc = "run"
    /\ run <= Len(K_ratio)
    /\ K' = (K_ratio[run] * K_c) \div 2
    /\ theta' \in [Users -> ThetaValues]
    /\ r_history' = <<>>
    /\ sync_time' = <<>>
    /\ step' = 0
    /\ kura_pc' = "measure"
    /\ UNCHANGED <<omega, run, r, coupling, r_final, sync_str, status_K>>

\* if r > 0.9 and sync_time is None: sync_time = step * dt
SyncTimeAfter(rv, st, sp) ==
    IF rv > 900 /\ st = <<>> THEN <<sp * dt>> ELSE st

\* First half of the loop body: the order parameter is computed and recorded
Measure ==
    /\ kura_pc = "measure"
    /\ step < steps
    /\ r' = OrderParameter(theta)
    /\ r_history' = Append(r_history, r')
    /\ sync_time' = SyncTimeAfter(r', sync_time, step)
    /\ kura_pc' = "dynamics"
    /\ UNCHANGED <<omega, run, K, theta, step, coupling, r_final, sync_str, status_K>>

\* (K / N_users) * np.sum(np.sin(theta - theta[i]))
CouplingTerm(th, Kv, i) ==
    Quot(Kv * Sum([j \in Users |-> Sin(th[j] - th[i])]), N_users)

\* for i in range(N_users): coupling[i] = ...   (the loop, from index i on)
RECURSIVE CouplingLoop(_, _, _, _)
CouplingLoop(th, Kv, cp, i) ==
    IF i > N_users THEN cp
    ELSE CouplingLoop(th, Kv, [cp EXCEPT ![i] = CouplingTerm(th, Kv, i)], i + 1)

\* Variant: each phase advanced as soon as its coupling term is known, so
\* that later oscillators read phases of the new time level
RECURSIVE InPlaceLoop(_, _, _, _, _)
InPlaceLoop(th, om, Kv, cp, i) ==
    IF i > N_users THEN [coupling |-> cp, theta |-> th]
    ELSE InPlaceLoop([th EXCEPT ![i] = @ + (om[i] + CouplingTerm(th, Kv, i)) * dt],
                     om, Kv, [cp EXCEPT ![i] = CouplingTerm(th, Kv, i)], i + 1)

KuramotoStepInPlace(th, om, Kv) == InPlaceLoop(th, om, Kv, [i \in Users |-> 0], 1)

\* coupling = np.zeros(N_users); the loop; theta += (omega + coupling) * dt
KuramotoStep(th, om, Kv) ==
    [coupling |-> CouplingLoop(th, Kv, [i \in Users |-> 0], 1),
     theta |-> [i \in Users |->
                   th[i] + (om[i] + CouplingLoop(th, Kv, [k \in Users |-> 0], 1)[i]) * dt]]

\* Second half of the loop body: the Kuramoto dynamics
Dynamics ==
    /\ kura_pc = "dynamics"
    /\ coupling' = KuramotoStep(theta, omega, K).coupling
    /\ theta' = KuramotoStep(theta, omega, K).theta
    /\ step' = step + 1
    /\ kura_pc' = "measure"
    /\ UNCHANGED <<omega, run, K, r, r_history, sync_time, r_final, sync_str, status_K>>

\* r_history[-100:]
LastEntries(h, n) == IF Len(h) <= n THEN h ELSE SubSeq(h, Len(h) - n + 1, Len(h))

\* Variant: the first entries of the history instead of the last
FinalCoherenceOfHead(h) == Mean(SubSeq(h, 1, IF Len(h) <= TailLen THEN Len(h) ELSE TailLen))

\* r_final = np.mean(r_history[-100:])
FinalCoherence(h) == Mean(LastEntries(h, TailLen))

\* Python truth value of sync_time: None and 0.0 are false
Truthy(st) == st # <<>> /\ st[1] # 0

\* f"{sync_time:.2f}": milliseconds rounded to hundredths of a second
Format2f(ms) == (ms + 5) \div 10

\* sync_str = f"{sync_time:.2f}" if sync_time else ">5.0"
SyncStr(st) ==
    IF Truthy(st) THEN [text |-> "%.2f", centis |-> Format2f(st[1])]
    ELSE [text |-> ">5.0", centis |-> 0]

\* status = "LOCKED" if r_final > 0.9 else "PARTIAL" if r_final > 0.5 else "INCOHERENT"
CoherenceStatus(rf) ==
    IF rf > 900 THEN "LOCKED" ELSE IF rf > 500 THEN "PARTIAL" ELSE "INCOHERENT"

\* The time-stepping loop is over: the row of the run is computed and printed
FinishRun ==
    /\ kura_pc = "measure"
    /\ step >= steps
    /\ r_final' = FinalCoherence(r_history)
    /\ sync_str' = SyncStr(sync_time)
    /\ status_K' = CoherenceStatus(r_final')
    /\ run' = run + 1
    /\ kura_pc' = "run"
    /\ UNCHANGED <<omega, K, theta, step, r, r_history, sync_time, coupling>>

\* The list of coupling ratios is exhausted
EndRuns ==
    /\ kura_pc = "run"
    /\ run > Len(K_ratio)
    /\ kura_pc' = "done"
    /\ UNCHANGED <<omega, run, K, theta, step, r, r_history, sync_time, coupling,
                   r_final, sync_str, status_K>>

InitKuramoto == GridInit /\ ReportIdle /\ KuraInit /\ TablesIdle

NextKuramoto ==
    \/ StartRun /\ UNCHANGED <<gridVars, reportVars, tableVars>>
    \/ Measure /\ UNCHANGED <<gridVars, reportVars, tableVars>>
    \/ Dynamics /\ UNCHANGED <<gridVars, reportVars, tableVars>>
    \/ FinishRun /\ UNCHANGED <<gridVars, reportVars, tableVars>>
    \/ EndRuns /\ UNCHANGED <<gridVars, reportVars, tableVars>>

SpecKuramoto == InitKuramoto /\ [][NextKuramoto]_vars

(***************************************************************************)
(* Part III.  thermal_safety_sim.py, PART 2: steady-state temperature rise *)
(*                                                                         *)
(* Units: conductivity k in mW/(m K), thickness L in micrometres, area A   *)
(* in square millimetres, so that L / (k A) in K/W is                      *)
(* L * 10^3 / (k * A), and in hundredths of K/W L * 10^5 / (k * A).        *)
(***************************************************************************)
layers == <<
    [name |-> "Silicon die",      k |-> 150000, L |-> 500,  A |-> 4],
    [name |-> "PCB (FR4)",        k |-> 300,    L |-> 1000, A |-> 100],
    [name |-> "Encapsulation",    k |-> 200,    L |-> 500,  A |-> 200],
    [name |-> "Air gap",          k |-> 26,     L |-> 1000, A |-> 200],
    [name |-> "Skin (epidermis)", k |-> 210,    L |-> 100,  A |-> 200] >>

\* R = props["L"] / (props["k"] * props["A"])
LayerResistance(props) == (props.L * 100000) \div (props.k * props.A)

\* powers_mW, in units of 10 microwatts.
powers_mW == <<1, 5, 10, 50, 100, 500, 1000, 5000, 10000>>

\* The rows the loop can be asked to print: every power from 0 to the
\* largest of the table, 100 mW, in steps of 10 microwatts.
PowerSamples == 0 .. powers_mW[Len(powers_mW)]

\* 33 C baseline skin temperature.
BaselineSkin == 3300

\* dT = P * 1e-3 * R_total, hundredths of a kelvin.
TempRise(P, R) == (P * R) \div 100000

\* The variant that reads CAUTION up to and including 43 C.
ThermalStatusInclusive(T) ==
    IF T < 4000 THEN "SAFE"
    ELSE IF T <= 4300 THEN "CAUTION"
    ELSE IF T < 4800 THEN "WARNING"
    ELSE "DANGER"

\* if T_skin < 40: SAFE  elif < 43: CAUTION  elif < 48: WARNING  else: DANGER
ThermalStatus(T) ==
    IF T < 4000 THEN "SAFE"
    ELSE IF T < 4300 THEN "CAUTION"
    ELSE IF T < 4800 THEN "WARNING"
    ELSE "DANGER"

ThermalInit ==
    /\ layer = 1 /\ R_total = 0 /\ P_th \in PowerSamples /\ dT = 0 /\ T_skin = 0
    /\ status_T = "" /\ thermal_pc = "layers"

\* for name, props in layers.items(): R_total += R
AddLayer ==
    /\ thermal_pc = "layers"
    /\ layer <= Len(layers)
    /\ R_total' = R_total + LayerResistance(layers[layer])
    /\ layer' = layer + 1
    /\ UNCHANGED <<P_th, dT, T_skin, status_T, thermal_pc>>

LayersDone ==
    /\ thermal_pc = "layers"
    /\ layer > Len(layers)
    /\ thermal_pc' = "row"
    /\ UNCHANGED <<layer, R_total, P_th, dT, T_skin, status_T>>

\* One pass of "for P in powers_mW" for the power P_th.
PowerRow ==
    /\ thermal_pc = "row"
    /\ dT' = TempRise(P_th, R_total)
    /\ T_skin' = BaselineSkin + TempRise(P_th, R_total)
    /\ status_T' = ThermalStatus(BaselineSkin + TempRise(P_th, R_total))
    /\ thermal_pc' = "done"
    /\ UNCHANGED <<layer, R_total, P_th>>

InitThermal ==
    /\ GridInit /\ ReportIdle /\ KuraIdle
    /\ ThermalInit /\ BudgetIdle /\ MemoryIdle /\ HarvestIdle /\ PaschenIdle
    /\ SweepsIdle

\* The variant in which the script's global "status" is the variable of the
\* same name of power_density_sim.py.
NextThermalSharingStatus ==
    \/ AddLayer /\ UNCHANGED <<gridVars, reportVars, kuraVars, budgetVars,
                               memoryVars, harvestVars, paschenVars, sweepVars>>
    \/ LayersDone /\ UNCHANGED <<gridVars, reportVars, kuraVars, budgetVars,
                                 memoryVars, harvestVars, paschenVars, sweepVars>>
    \/ PowerRow /\ status' = status_T'
                /\ UNCHANGED <<gridVars, v_del, kuraVars, budgetVars,
                               memoryVars, harvestVars, paschenVars, sweepVars>>

NextThermal ==
    \/ AddLayer /\ UNCHANGED <<gridVars, reportVars, kuraVars, budgetVars,
                               memoryVars, harvestVars, paschenVars, sweepVars>>
    \/ LayersDone /\ UNCHANGED <<gridVars, reportVars, kuraVars, budgetVars,
                                 memoryVars, harvestVars, paschenVars, sweepVars>>
    \/ PowerRow /\ UNCHANGED <<gridVars, reportVars, kuraVars, budgetVars,
                               memoryVars, harvestVars, paschenVars, sweepVars>>

SpecThermal == InitThermal /\ [][NextThermal]_vars

(***************************************************************************)
(* Part IV.  power_density_sim.py, PART 1: power budget                    *)
(*                                                                         *)
(* Powers are hundredths of a microwatt (4.75 uW is 475).  The script's    *)
(* tables are literals; the budget is checked for every table made of a    *)
(* selection of their rows, in the order of the script.                    *)
(***************************************************************************)
AllSources == <<
    [name |-> "Thermoelectric (chest)", P_uW |-> 8000,  type |-> "harvest"],
    [name |-> "Thermoelectric (back)",  P_uW |-> 6000,  type |-> "harvest"],
    [name |-> "Piezo (shoe L)",         P_uW |-> 2500,  type |-> "harvest"],
    [name |-> "Piezo (shoe R)",         P_uW |-> 2500,  type |-> "harvest"],
    [name |-> "RF rectenna",            P_uW |-> 500,   type |-> "harvest"],
    [name |-> "Supercap reserve",       P_uW |-> 50000, type |-> "storage"] >>

AllSinks == <<
    [name |-> "MCU (sleep 95%)",        P_uW |-> 475],
    [name |-> "MCU (active 5%)",        P_uW |-> 25000],
    [name |-> "BLE radio (1% duty)",    P_uW |-> 15000],
    [name |-> "Sensors x12 (10% duty)", P_uW |-> 6000],
    [name |-> "MRAM writes",            P_uW |-> 1000],
    [name |-> "Mesh routing",           P_uW |-> 2000],
    [name |-> "LED (0.1% duty)",        P_uW |-> 2000] >>

\* The rows of a table whose indices are in S, in the table's order.
RECURSIVE RowsUpTo(_, _, _)
RowsUpTo(table, S, n) ==
    IF n = 0 THEN <<>>
    ELSE IF n \in S THEN Append(RowsUpTo(table, S, n - 1), table[n])
    ELSE RowsUpTo(table, S, n - 1)

Rows(table, S) == RowsUpTo(table, S, Len(table))

\* sum(s["P_uW"] for s in table.values() if s["type"] in types), first n rows
RECURSIVE SumP_uW(_, _, _)
SumP_uW(table, types, n) ==
    IF n = 0 THEN 0
    ELSE SumP_uW(table, types, n - 1)
         + (IF table[n].type \in types THEN table[n].P_uW ELSE 0)

\* The variant that counts the storage reserve as harvest.
TotalHarvestWithStorage(table) == SumP_uW(table, {"harvest", "storage"}, Len(table))

\* sum(s["P_uW"] for s in sources.values() if s["type"] == "harvest")
TotalHarvest(table) == SumP_uW(table, {"harvest"}, Len(table))

\* The variant that reads a margin of zero as OK.
MarginLabelInclusive(m) == IF m >= 0 THEN "(OK)" ELSE "(DEFICIT)"

\* '(OK)' if margin > 0 else '(DEFICIT)'
MarginLabel(m) == IF m > 0 THEN "(OK)" ELSE "(DEFICIT)"

BudgetInit ==
    /\ sources \in {Rows(AllSources, S) : S \in SUBSET (1 .. Len(AllSources))}
    /\ sinks \in {Rows(AllSinks, S) : S \in SUBSET (1 .. Len(AllSinks))}
    /\ total_harvest = 0 /\ total_sink_avg = 0 /\ sink = 1 /\ margin = 0
    /\ margin_label = "" /\ budget_pc = "harvest"

\* total_harvest = sum(...); total_sink_avg = 0
SumHarvest ==
    /\ budget_pc = "harvest"
    /\ total_harvest' = TotalHarvest(sources)
    /\ total_sink_avg' = 0
    /\ sink' = 1
    /\ budget_pc' = "sinks"
    /\ UNCHANGED <<sources, sinks, margin, margin_label>>

\* for name, s in sinks.items(): total_sink_avg += s["P_uW"]
AddSink ==
    /\ budget_pc = "sinks"
    /\ sink <= Len(sinks)
    /\ total_sink_avg' = total_sink_avg + sinks[sink].P_uW
    /\ sink' = sink + 1
    /\ UNCHANGED <<sources, sinks, total_harvest, margin, margin_label, budget_pc>>

\* margin = total_harvest - total_sink_avg, and the label printed with it
PrintMargin ==
    /\ budget_pc = "sinks"
    /\ sink > Len(sinks)
    /\ margin' = total_harvest - total_sink_avg
    /\ margin_label' = MarginLabel(total_harvest - total_sink_avg)
    /\ budget_pc' = "done"
    /\ UNCHANGED <<sources, sinks, total_harvest, total_sink_avg, sink>>

InitBudget ==
    /\ GridInit /\ ReportIdle /\ KuraIdle
    /\ ThermalIdle /\ BudgetInit /\ MemoryIdle /\ HarvestIdle /\ PaschenIdle
    /\ SweepsIdle

NextBudget ==
    \/ SumHarvest /\ UNCHANGED <<gridVars, reportVars, kuraVars, thermalVars,
                                 memoryVars, harvestVars, paschenVars, sweepVars>>
    \/ AddSink /\ UNCHANGED <<gridVars, reportVars, kuraVars, thermalVars,
                              memoryVars, harvestVars, paschenVars, sweepVars>>
    \/ PrintMargin /\ UNCHANGED <<gridVars, reportVars, kuraVars, thermalVars,
                                  memoryVars, harvestVars, paschenVars, sweepVars>>

SpecBudget == InitBudget /\ [][NextBudget]_vars

(***************************************************************************)
(* Part V.  memory_map_sim.py: memory totals and the address map           *)
(*                                                                         *)
(* The totals are checked for every table made of a selection of the rows  *)
(* of nodes, in the order of the script.  An address "0x12_3456" is the    *)
(* sequence of its six hexadecimal digits.                                 *)
(***************************************************************************)
AllNodes == <<
    [name |-> "SensorNode",  count |-> 12, sram_KB |-> 64,  flash_KB |-> 512,
     mram_KB |-> 0],
    [name |-> "ComputeNode", count |-> 2,  sram_KB |-> 256, flash_KB |-> 2048,
     mram_KB |-> 4096],
    [name |-> "PowerNode",   count |-> 4,  sram_KB |-> 16,  flash_KB |-> 128,
     mram_KB |-> 0],
    [name |-> "MeshRouter",  count |-> 6,  sram_KB |-> 128, flash_KB |-> 512,
     mram_KB |-> 0] >>

addr_map == <<
    [lo |-> <<0, 0, 0, 0, 0, 0>>,  hi |-> <<0, 0, 15, 15, 15, 15>>,
     node |-> "SensorNode",  index |-> 0],
    [lo |-> <<0, 1, 0, 0, 0, 0>>,  hi |-> <<0, 1, 15, 15, 15, 15>>,
     node |-> "SensorNode",  index |-> 1],
    [lo |-> <<0, 11, 0, 0, 0, 0>>, hi |-> <<0, 11, 15, 15, 15, 15>>,
     node |-> "SensorNode",  index |-> 11],
    [lo |-> <<1, 0, 0, 0, 0, 0>>,  hi |-> <<1, 1, 15, 15, 15, 15>>,
     node |-> "ComputeNode", index |-> 0],
    [lo |-> <<1, 2, 0, 0, 0, 0>>,  hi |-> <<1, 3, 15, 15, 15, 15>>,
     node |-> "ComputeNode", index |-> 1],
    [lo |-> <<2, 0, 0, 0, 0, 0>>,  hi |-> <<2, 0, 15, 15, 15, 15>>,
     node |-> "PowerNode",   index |-> 0],
    [lo |-> <<3, 0, 0, 0, 0, 0>>,  hi |-> <<3, 0, 15, 15, 15, 15>>,
     node |-> "MeshRouter",  index |-> 0] >>

\* The variant that adds the per-node MRAM size without the node count.
AddMramOnce(total, n) == total + n.mram_KB

\* total_mram += n["mram_KB"] * n["count"]
AddMram(total, n) == total + n.mram_KB * n.count

MemoryInit ==
    /\ nodes \in {Rows(AllNodes, S) : S \in SUBSET (1 .. Len(AllNodes))}
    /\ node_type = 1 /\ table_rows = <<>> /\ total_sram = 0 /\ total_flash = 0
    /\ total_mram = 0 /\ total_nodes = 0 /\ total_all = 0
    /\ entry = 1 /\ printed = <<>> /\ memory_pc = "totals"

\* for name, n in nodes.items(): one pass
AddNodeType ==
    /\ memory_pc = "totals"
    /\ node_type <= Len(nodes)
    /\ LET n == nodes[node_type]
           total_per == n.sram_KB + n.flash_KB + n.mram_KB
       IN  /\ total_sram' = total_sram + n.sram_KB * n.count
           /\ total_flash' = total_flash + n.flash_KB * n.count
           /\ total_mram' = AddMram(total_mram, n)
           /\ total_nodes' = total_nodes + n.count
           /\ table_rows' = Append(table_rows,
                  [name |-> n.name, count |-> n.count, total_per |-> total_per])
    /\ node_type' = node_type + 1
    /\ UNCHANGED <<nodes, total_all, entry, printed, memory_pc>>

\* total_all = total_sram + total_flash + total_mram
SumAll ==
    /\ memory_pc = "totals"
    /\ node_type > Len(nodes)
    /\ total_all' = total_sram + total_flash + total_mram
    /\ memory_pc' = "map"
    /\ UNCHANGED <<nodes, node_type, table_rows, total_sram, total_flash,
                   total_mram, total_nodes, entry, printed>>

\* for addr, node, mtype, size in addr_map: print one row
PrintEntry ==
    /\ memory_pc = "map"
    /\ entry <= Len(addr_map)
    /\ printed' = Append(printed, addr_map[entry])
    /\ entry' = entry + 1
    /\ UNCHANGED <<nodes, node_type, table_rows, total_sram, total_flash,
                   total_mram, total_nodes, total_all, memory_pc>>

MapDone ==
    /\ memory_pc = "map"
    /\ entry > Len(addr_map)
    /\ memory_pc' = "done"
    /\ UNCHANGED <<nodes, node_type, table_rows, total_sram, total_flash,
                   total_mram, total_nodes, total_all, entry, printed>>

InitMemory ==
    /\ GridInit /\ ReportIdle /\ KuraIdle
    /\ ThermalIdle /\ BudgetIdle /\ MemoryInit /\ HarvestIdle /\ PaschenIdle
    /\ SweepsIdle

NextMemory ==
    \/ AddNodeType /\ UNCHANGED <<gridVars, reportVars, kuraVars, thermalVars,
                                  budgetVars, harvestVars, paschenVars, sweepVars>>
    \/ SumAll /\ UNCHANGED <<gridVars, reportVars, kuraVars, thermalVars,
                             budgetVars, harvestVars, paschenVars, sweepVars>>
    \/ PrintEntry /\ UNCHANGED <<gridVars, reportVars, kuraVars, thermalVars,
                                 budgetVars, harvestVars, paschenVars, sweepVars>>
    \/ MapDone /\ UNCHANGED <<gridVars, reportVars, kuraVars, thermalVars,
                              budgetVars, harvestVars, paschenVars, sweepVars>>

SpecMemory == InitMemory /\ [][NextMemory]_vars

(***************************************************************************)
(* Part VI.  metamaterial_rectenna_sim.py, PART 6: harvest budget          *)
(*                                                                         *)
(* A power is a pair [uW, e7]: uW whole microwatts plus e7 tenth-millionths*)
(* of a microwatt, 0 <= e7 < 10^7 (the CMB row is 10^-7 uW).  The budget is*)
(* checked for every table made of a selection of the rows of harvest.     *)
(***************************************************************************)
E7 == 10000000

AllHarvest == <<
    [name |-> "RF rectenna (urban)",   P_uW |-> [uW |-> 10,    e7 |-> 0], real |-> TRUE],
    [name |-> "Thermoelectric (body)", P_uW |-> [uW |-> 80,    e7 |-> 0], real |-> TRUE],
    [name |-> "Piezoelectric (shoe)",  P_uW |-> [uW |-> 50,    e7 |-> 0], real |-> TRUE],
    [name |-> "Solar (flex, outdoor)", P_uW |-> [uW |-> 50000, e7 |-> 0], real |-> TRUE],
    [name |-> "Solar (flex, indoor)",  P_uW |-> [uW |-> 100,   e7 |-> 0], real |-> TRUE],
    [name |-> "CMB capture",           P_uW |-> [uW |-> 0,     e7 |-> 1], real |-> FALSE],
    [name |-> "Vacuum fluctuations",   P_uW |-> [uW |-> 0,     e7 |-> 0], real |-> FALSE],
    [name |-> "Quantum correlation",   P_uW |-> [uW |-> 0,     e7 |-> 0], real |-> FALSE] >>

\* a + b on powers, with the carry out of the fraction
PlusP(a, b) ==
    [uW |-> a.uW + b.uW + (a.e7 + b.e7) \div E7, e7 |-> (a.e7 + b.e7) % E7]

\* h["P_uW"] > 0
Positive(p) == p.uW > 0 \/ (p.uW = 0 /\ p.e7 > 0)

\* "PROVEN" if real and P > 0 else "THEORETICAL" if not real else "-"
EngineeringStatus(h) ==
    IF h.real /\ Positive(h.P_uW) THEN "PROVEN"
    ELSE IF ~h.real THEN "THEORETICAL"
    ELSE "-"

\* "YES" if real and P > 0 else "NO"
Harvestable(h) == IF h.real /\ Positive(h.P_uW) THEN "YES" ELSE "NO"

\* The variant that adds every row, real or not.
AddToTotalAlways(total, h) == PlusP(total, h.P_uW)

\* if h["real"]: total_real += h["P_uW"]
AddToTotal(total, h) == IF h.real THEN PlusP(total, h.P_uW) ELSE total

\* f"{x:.0f}": the nearest whole number, a tie going to the even one
Format0f(p) ==
    IF 2 * p.e7 < E7 THEN p.uW
    ELSE IF 2 * p.e7 > E7 THEN p.uW + 1
    ELSE IF p.uW % 2 = 0 THEN p.uW
    ELSE p.uW + 1

\* total - c for a whole number c of microwatts
MinusWhole(p, c) == [uW |-> p.uW - c, e7 |-> p.e7]

HarvestInit ==
    /\ harvest \in {Rows(AllHarvest, S) : S \in SUBSET (1 .. Len(AllHarvest))}
    /\ h_row = 1 /\ harvest_rows = <<>> /\ total_real = [uW |-> 0, e7 |-> 0]
    /\ totals = <<>> /\ harvest_pc = "rows"

\* for name, h in harvest.items(): one pass
HarvestRow ==
    /\ harvest_pc = "rows"
    /\ h_row <= Len(harvest)
    /\ LET h == harvest[h_row]
       IN  /\ harvest_rows' = Append(harvest_rows,
                  [name |-> h.name, harv |-> Harvestable(h),
                   status |-> EngineeringStatus(h)])
           /\ total_real' = AddToTotal(total_real, h)
    /\ h_row' = h_row + 1
    /\ UNCHANGED <<harvest, totals, harvest_pc>>

\* The three totals: no solar, indoor, outdoor.
PrintTotals ==
    /\ harvest_pc = "rows"
    /\ h_row > Len(harvest)
    /\ totals' = << Format0f(MinusWhole(total_real, 50000 + 100)),
                    Format0f(MinusWhole(total_real, 50000)),
                    Format0f(total_real) >>
    /\ harvest_pc' = "done"
    /\ UNCHANGED <<harvest, h_row, harvest_rows, total_real>>

InitHarvest ==
    /\ GridInit /\ ReportIdle /\ KuraIdle
    /\ ThermalIdle /\ BudgetIdle /\ MemoryIdle /\ HarvestInit /\ PaschenIdle
    /\ SweepsIdle

NextHarvest ==
    \/ HarvestRow /\ UNCHANGED <<gridVars, reportVars, kuraVars, thermalVars,
                                 budgetVars, memoryVars, paschenVars, sweepVars>>
    \/ PrintTotals /\ UNCHANGED <<gridVars, reportVars, kuraVars, thermalVars,
                                  budgetVars, memoryVars, paschenVars, sweepVars>>

SpecHarvest == InitHarvest /\ [][NextHarvest]_vars

(***************************************************************************)
(* Part VII.  spark_gap_bio_sim.py: Paschen breakdown table                *)
(*                                                                         *)
(* Gap widths are tenths of a micrometre (10^-5 cm), p*d is in units of    *)
(* 10^-5 cm torr, logarithms are in ten-thousandths, voltages in whole     *)
(* volts.  A float division by zero is +inf in numpy; V_break carries it.  *)
(***************************************************************************)
A_p == 15

B_p == 365

p_atm == 760

PaschenMinimum == 327

\* The rows the loop can be asked to print: every gap from 0 to the largest
\* of the sweep, 1000 micrometres, in steps of 0.1 micrometre.
GapSamples == 0 .. 10000

\* floor(log2 n) and 2^floor(log2 n), n >= 1
RECURSIVE Log2(_)
Log2(n) == IF n < 2 THEN 0 ELSE 1 + Log2(n \div 2)

RECURSIVE Pow2(_)
Pow2(k) == IF k = 0 THEN 1 ELSE 2 * Pow2(k - 1)

\* np.log(n) for an integer n >= 1, in ten-thousandths: n = 2^k * m with
\* 1 <= m < 2, ln n = k ln 2 + 2 (t + t^3/3 + t^5/5), t = (m - 1) / (m + 1).
Ln(n) ==
    LET k == Log2(n)
        p == Pow2(k)
        m == IF k >= 10 THEN n \div (p \div 1024) ELSE n * (1024 \div p)
        t == (10000 * (m - 1024)) \div (m + 1024)
        t2 == (t * t) \div 10000
        t3 == (t2 * t) \div 10000
        t5 == (t3 * t2) \div 10000
    IN  k * 6931 + 2 * (t + t3 \div 3 + t5 \div 5)

\* pd = p_atm * d_cm, units of 10^-5 cm torr
Pd(d) == p_atm * d

\* np.log(A_p * pd + 1e-10) - np.log(np.log(1 + 1/0.01)), ten-thousandths;
\* the 1e-10 is below the resolution carried here.
Denominator(d) ==
    (Ln(A_p * Pd(d)) - Ln(100000)) - (Ln(Ln(1 + 100)) - Ln(10000))

\* B_p * pd / denominator in whole volts, rounded towards zero; +inf when
\* the denominator is zero.
Quotient(d) ==
    LET num == ((B_p * p_atm) \div 10) * d
        den == Denominator(d)
    IN  IF den = 0 THEN [inf |-> TRUE, volts |-> 0]
        ELSE IF den > 0 THEN [inf |-> FALSE, volts |-> num \div den]
        ELSE [inf |-> FALSE, volts |-> 0 - (num \div (0 - den))]

\* The variant without the clamp.
ClampOmitted(v, floor) == v

\* max(V_break, 327)
Clamp(v, floor) ==
    IF v.inf THEN v
    ELSE IF floor > v.volts THEN [inf |-> FALSE, volts |-> floor]
    ELSE v

PaschenInit ==
    /\ d_um \in GapSamples
    /\ V_break = [inf |-> FALSE, volts |-> 0]
    /\ paschen_pc = "row"

\* One pass of "for d_um in [...]" for the gap d_um; pd > 0.01 is Pd > 1000.
PaschenRow ==
    /\ paschen_pc = "row"
    /\ V_break' = IF Pd(d_um) > 1000
                  THEN Clamp(Quotient(d_um), PaschenMinimum)
                  ELSE [inf |-> FALSE, volts |-> PaschenMinimum]
    /\ paschen_pc' = "done"
    /\ UNCHANGED d_um

InitPaschen ==
    /\ GridInit /\ ReportIdle /\ KuraIdle
    /\ ThermalIdle /\ BudgetIdle /\ MemoryIdle /\ HarvestIdle /\ PaschenInit
    /\ SweepsIdle

NextPaschen ==
    PaschenRow /\ UNCHANGED <<gridVars, reportVars, kuraVars, thermalVars,
                              budgetVars, memoryVars, harvestVars, sweepVars>>

SpecPaschen == InitPaschen /\ [][NextPaschen]_vars

(***************************************************************************)
(* Part VIII.  The table scripts run side by side                          *)
(*                                                                         *)
(* Each script is a module of its own: it imports numpy only, opens no     *)
(* file, and its globals belong to its own interpreter.  Here the five     *)
(* table scripts start from their own literals and their steps interleave  *)
(* in every order.                                                         *)
(***************************************************************************)
sweep == <<10, 50, 100, 500, 1000, 5000, 10000>>

\* Every row of the thermal table runs beside the first row of the Paschen
\* table, and every row of the Paschen table beside the first thermal row.
InitScripts ==
    /\ GridInit /\ ReportIdle /\ KuraIdle
    /\ \/ P_th \in {powers_mW[n] : n \in 1 .. Len(powers_mW)} /\ d_um = sweep[1]
       \/ P_th = powers_mW[1] /\ d_um \in {sweep[n] : n \in 1 .. Len(sweep)}
    /\ ThermalInit
    /\ sources = AllSources /\ sinks = AllSinks /\ BudgetInit
    /\ nodes = AllNodes /\ MemoryInit
    /\ harvest = AllHarvest /\ HarvestInit
    /\ PaschenInit
    /\ SweepsIdle

NextScripts ==
    \/ NextThermal
    \/ NextBudget
    \/ NextMemory
    \/ NextHarvest
    \/ NextPaschen

SpecScripts == InitScripts /\ [][NextScripts]_vars

(***************************************************************************)
(* Part IX.  sequinoid_network_sim.py, PART 5: ATP trigger table           *)
(*                                                                         *)
(* Energies are in units of 10^-8 J, Avogadro's number in units of         *)
(* 10^20 / mol, times in microseconds.  The amplification is a pair        *)
(* [whole, e15]: its whole part and its fraction in units of 10^-15.       *)
(***************************************************************************)
stim_power_uW == <<1, 5, 10, 50, 100, 500>>

\* The rows the loop can be asked to print: every power from 1 uW to the
\* largest of the table.
StimSamples == 1 .. stim_power_uW[Len(stim_power_uW)]

\* N_A = 6.022e23, in units of 10^20
N_A == 6022

\* threshold_mJ_cm2 * 1e-3 * area_cm2 * 1e-4 = 0.5 * 1.0 * 1e-7 J, in 10^-8 J
E_threshold_J == 5

\* 1100e3 J/mol
CapturedPerMol == 1100000

MaxAmplification == 1000000

MaxAtp == 10000

\* 1100e3 / (E_input * N_A): the divisor is E_input * N_A * 10^12, so the
\* whole part is the quotient by E_input * N_A divided twice by 10^6, and
\* the fraction in 10^-15 is 1100e3 * 10^3 / (E_input * N_A) while the whole
\* part is 0.
AmplificationOf(E_input) ==
    IF E_input > 0
    THEN LET whole == ((CapturedPerMol \div (E_input * N_A)) \div 1000000)
                          \div 1000000
         IN  [whole |-> whole,
              e15 |-> IF whole = 0
                      THEN (CapturedPerMol * 1000) \div (E_input * N_A)
                      ELSE 0]
    ELSE [whole |-> 0, e15 |-> 0]

\* min(amplification, 1e6)
CapAmplification(a) ==
    IF a.whole >= MaxAmplification THEN [whole |-> MaxAmplification, e15 |-> 0]
    ELSE a

\* min(int(36 * P / 10), 10000)
AtpTriggered(P) ==
    IF (36 * P) \div 10 < MaxAtp THEN (36 * P) \div 10 ELSE MaxAtp

\* t_threshold = E_threshold_J / P_watts, microseconds
TimeToThreshold(P) == (E_threshold_J * 10000) \div P

\* x rounded to the nearest multiple of q, counted in multiples of q, a tie
\* going to the even one ("%.1f" on the exact quotient)
RoundHalfEven(x, q) ==
    LET lo == x \div q
        twice == 2 * (x % q)
    IN  IF twice < q THEN lo
        ELSE IF twice > q THEN lo + 1
        ELSE IF lo % 2 = 0 THEN lo ELSE lo + 1

\* if t < 1: ms  elif t < 60: s  else: min
TimeString(t) ==
    IF t < 1000000 THEN [tenths |-> RoundHalfEven(t, 100), unit |-> "ms"]
    ELSE IF t < 60000000 THEN [tenths |-> RoundHalfEven(t, 100000), unit |-> "s"]
    ELSE [tenths |-> RoundHalfEven(t, 6000000), unit |-> "min"]

AtpInit ==
    /\ P_stim \in StimSamples
    /\ t_threshold = 0 /\ amplification = [whole |-> 0, e15 |-> 0]
    /\ n_atp = 0 /\ t_str = [tenths |-> 0, unit |-> ""] /\ atp_pc = "row"

\* One pass of "for P in stim_power_uW" for the power P_stim.
AtpRow ==
    /\ atp_pc = "row"
    /\ t_threshold' = TimeToThreshold(P_stim)
    /\ amplification' = CapAmplification(AmplificationOf(E_threshold_J))
    /\ n_atp' = AtpTriggered(P_stim)
    /\ t_str' = TimeString(TimeToThreshold(P_stim))
    /\ atp_pc' = "done"
    /\ UNCHANGED P_stim

InitAtp ==
    /\ GridInit /\ ReportIdle /\ KuraIdle
    /\ ThermalIdle /\ BudgetIdle /\ MemoryIdle /\ HarvestIdle /\ PaschenIdle
    /\ AtpInit /\ ResonanceIdle

NextAtp ==
    AtpRow /\ UNCHANGED <<gridVars, reportVars, kuraVars, thermalVars, budgetVars,
                          memoryVars, harvestVars, paschenVars, resonanceVars>>

SpecAtp == InitAtp /\ [][NextAtp]_vars

(***************************************************************************)
(* Part X.  metamaterial_rectenna_sim.py, PART 4: stochastic resonance     *)
(*                                                                         *)
(* Noise levels and the barrier are hundredths.  rate and snr are positive *)
(* floats of the form c * exp(-x); np.exp is strictly increasing and does  *)
(* not underflow on this range, so such a float is carried by its natural  *)
(* logarithm, in millionths, and "snr > snr_max" compares logarithms.  The *)
(* initial snr_max = 0 is below every such float.  The sweep is checked    *)
(* for every selection of the noise levels of D_values, in their order.    *)
(***************************************************************************)
AllD_values == <<1, 5, 10, 20, 30, 50, 100, 200>>

\* barrier = a**2 / (4*b) with a = b = 1.0
barrier == 25

\* ln((a * np.sqrt(b)) / (2 * np.pi)) = -ln(2 pi), millionths
LnPrefactor == 0 - 1837877

\* ln(rate), rate = (a sqrt(b)) / (2 pi) * exp(-barrier / D)
LnRate(D) == LnPrefactor - (barrier * 1000000) \div D

\* ln(snr), snr = rate * np.exp(-D)
LnSnr(D) == LnRate(D) - D * 10000

\* snr > snr_max
Exceeds(ln, max) == ~max.positive \/ ln > max.ln

\* "OPTIMAL" if abs(D - 0.2) < 0.05 else "sub-threshold" if D < 0.1
\* else "over-driven" if D > 0.5 else ""
NoiseStatus(D) ==
    IF (IF D >= 20 THEN D - 20 ELSE 20 - D) < 5 THEN "OPTIMAL"
    ELSE IF D < 10 THEN "sub-threshold"
    ELSE IF D > 50 THEN "over-driven"
    ELSE ""

\* The selections of a sequence of numbers, each in the sequence's order.
RECURSIVE PickUpTo(_, _, _)
PickUpTo(list, S, n) ==
    IF n = 0 THEN <<>>
    ELSE IF n \in S THEN Append(PickUpTo(list, S, n - 1), list[n])
    ELSE PickUpTo(list, S, n - 1)

ResonanceInit ==
    /\ D_values \in {PickUpTo(AllD_values, S, Len(AllD_values)) :
                        S \in SUBSET (1 .. Len(AllD_values))}
    /\ D_row = 1 /\ snr_max = [positive |-> FALSE, ln |-> 0] /\ D_optimal = 0
    /\ sr_rows = <<>> /\ sr_pc = "rows"

\* for D in D_values: one pass
NoiseRow ==
    /\ sr_pc = "rows"
    /\ D_row <= Len(D_values)
    /\ LET D == D_values[D_row]
           snr == LnSnr(D)
       IN  /\ IF Exceeds(snr, snr_max)
              THEN /\ snr_max' = [positive |-> TRUE, ln |-> snr]
                   /\ D_optimal' = D
              ELSE UNCHANGED <<snr_max, D_optimal>>
           /\ sr_rows' = Append(sr_rows,
                  [D |-> D, snr |-> snr, status |-> NoiseStatus(D)])
    /\ D_row' = D_row + 1
    /\ UNCHANGED <<D_values, sr_pc>>

\* print(f"\nOptimal noise level: D ~ {D_optimal:.2f}")
PrintOptimal ==
    /\ sr_pc = "rows"
    /\ D_row > Len(D_values)
    /\ sr_pc' = "done"
    /\ UNCHANGED <<D_values, D_row, snr_max, D_optimal, sr_rows>>

InitResonance ==
    /\ GridInit /\ ReportIdle /\ KuraIdle
    /\ ThermalIdle /\ BudgetIdle /\ MemoryIdle /\ HarvestIdle /\ PaschenIdle
    /\ AtpIdle /\ ResonanceInit

NextResonance ==
    \/ NoiseRow /\ UNCHANGED <<gridVars, reportVars, kuraVars, thermalVars, budgetVars,
                               memoryVars, harvestVars, paschenVars, atpVars>>
    \/ PrintOptimal /\ UNCHANGED <<gridVars, reportVars, kuraVars, thermalVars,
                                   budgetVars, memoryVars, harvestVars, paschenVars,
                                   atpVars>>

SpecResonance == InitResonance /\ [][NextResonance]_vars

(***************************************************************************)
(* Properties of the relaxation solver                                     *)
(***************************************************************************)

\* The cells the sweep has already written in the current iteration
Visited(c) == c[1] < cur[1] \/ (c[1] = cur[1] /\ c[2] < cur[2])

IsSink(c) == \E k \in 1 .. Len(sink_positions) : SinkCell(k) = c

SinkIndex(c) == CHOOSE k \in 1 .. Len(sink_positions) : SinkCell(k) = c

\* sum(g_k * V_old_k) / sum(g_k) over the four orthogonal neighbours, written out
JacobiValue(c) ==
    ( (30 \div R_sheet(<<c[1] - 1, c[2]>>)) * V_old[<<c[1] - 1, c[2]>>]
    + (30 \div R_sheet(<<c[1] + 1, c[2]>>)) * V_old[<<c[1] + 1, c[2]>>]
    + (30 \div R_sheet(<<c[1], c[2] - 1>>)) * V_old[<<c[1], c[2] - 1>>]
    + (30 \div R_sheet(<<c[1], c[2] + 1>>)) * V_old[<<c[1], c[2] + 1>>] )
    \div
    ( (30 \div R_sheet(<<c[1] - 1, c[2]>>)) + (30 \div R_sheet(<<c[1] + 1, c[2]>>))
    + (30 \div R_sheet(<<c[1], c[2] - 1>>)) + (30 \div R_sheet(<<c[1], c[2] + 1>>)) )

\* C1: in every iteration each interior cell other than the source is set to
\* the conductance-weighted average of its four neighbours in the snapshot
\* V_old taken at the start of the iteration: during the sweep every cell
\* already visited holds that value and every cell not yet visited still
\* holds its snapshot value, and when the sweep is over all of them hold it.
C1_JacobiUpdate ==
    /\ grid_pc = "sweep" =>
         \A c \in Interior \ {source_pos} :
             V[c] = IF Visited(c) THEN JacobiValue(c) ELSE V_old[c]
    /\ grid_pc = "sinks" =>
         \A c \in Interior \ {source_pos} : V[c] = JacobiValue(c)

\* A sweep has finished in which a cell's neighbours changed under it: its
\* Jacobi value differs from the average of the values now in the grid.
C1_Witness ==
    /\ grid_pc = "sinks"
    /\ iteration >= 1
    /\ \E c \in Interior \ {source_pos} :
           V[c] # V_old[c] /\ WeightedAverage(V, c) # JacobiValue(c)

\* C2: the source cell holds the supply voltage of 3.3 V in the initial
\* state, after every cell update, after every sink correction and when the
\* supply voltage is reported.
C2_SourceHeld == V[source_pos] = 3300000

\* The solver has run to the end and has spread the supply over the grid.
C2_Witness ==
    /\ grid_pc = "done"
    /\ V[source_pos] = 3300000
    /\ \A k \in 1 .. 4 : V[Neighbours(source_pos)[k]] # V[source_pos]
    /\ \E c \in Interior \ {source_pos} : V[c] > 0

\* C3: at the end of every iteration each sink cell holds its Jacobi value of
\* that iteration minus 0.001 * I * R_sheet[x, y] (applied once), every other
\* interior cell but the source holds its Jacobi value, and the source and
\* the border cells are as they were at the start of the iteration.
C3_SinkCorrection ==
    (grid_pc = "loop" /\ iteration > 0) =>
        \A c \in Cells :
            V[c] = IF IsSink(c)
                     THEN JacobiValue(c)
                          - sink_positions[SinkIndex(c)].I * R_sheet(c) * 10
                   ELSE IF c \in Interior \ {source_pos} THEN JacobiValue(c)
                   ELSE V_old[c]

\* An iteration has ended with a sink in a stretch zone (R_sheet > 1) corrected.
C3_Witness ==
    /\ grid_pc = "loop"
    /\ iteration > 0
    /\ \E k \in 1 .. Len(sink_positions) :
           /\ R_sheet(SinkCell(k)) > 1
           /\ V[SinkCell(k)] < JacobiValue(SinkCell(k))

\* C4: every sink is classified OK when v >= 1.8 V, LOW when
\* 1.2 V <= v < 1.8 V and FAIL when v < 1.2 V, the two boundary values
\* counting as OK and LOW.
C4_InclusiveThresholds ==
    status # "" =>
        /\ status = "OK" <=> v_del >= 1800000
        /\ status = "LOW" <=> (v_del >= 1200000 /\ v_del < 1800000)
        /\ status = "FAIL" <=> v_del < 1200000

\* C5: the solver terminates, it has then run exactly 2000 iterations, and the
\* iteration count only ever grows by one, at the end of a full sweep followed
\* by the sink corrections.
C5_ExactlyIterations ==
    /\ <>(grid_pc = "done")
    /\ [](grid_pc = "done" => iteration = 2000)
    /\ [][ \/ iteration' = iteration
           \/ (iteration' = iteration + 1 /\ grid_pc = "sinks" /\ LastCell(cur)) ]_vars

\* The solver has finished although the grid had stopped changing: the last
\* iteration left every voltage as its snapshot had it.
C5_Witness == grid_pc = "done" /\ iteration = 2000 /\ V = V_old

(***************************************************************************)
(* Properties of the Kuramoto loop                                         *)
(***************************************************************************)

\* A run has ended and its row has been printed; r_history, sync_time and the
\* row are those of that run until the next run starts.
RowPrinted == kura_pc = "run" /\ run > 1

\* The steps (counted from 0) at which the recorded order parameter exceeds 0.9
StepsAbove == {k \in 0 .. Len(r_history) - 1 : r_history[k + 1] > 900}

FirstAbove == CHOOSE k \in StepsAbove : \A m \in StepsAbove : k <= m

\* C6: the sync time is step * dt of the first step at which r exceeds 0.9,
\* and the 'no lock' text ">5.0" is reported if and only if r exceeded 0.9 at
\* no step of the run, step 0 included.
C6_NoLockIffNeverAbove ==
    RowPrinted =>
        /\ StepsAbove # {} => sync_time = <<FirstAbove * dt>>
        /\ sync_str.text = ">5.0" <=> StepsAbove = {}

RECURSIVE SumFrom(_, _)
SumFrom(h, k) == IF k > Len(h) THEN 0 ELSE h[k] + SumFrom(h, k + 1)

\* C7: r_final is the mean of the order parameter over the last TailLen
\* recorded steps (100 in the script), and the status is LOCKED when
\* r_final > 0.9, PARTIAL when 0.5 < r_final <= 0.9 and INCOHERENT when
\* r_final <= 0.5.
C7_FinalCoherence ==
    RowPrinted =>
        /\ Len(r_history) >= TailLen
        /\ r_final = SumFrom(r_history, Len(r_history) - TailLen + 1) \div TailLen
        /\ status_K \in {"LOCKED", "PARTIAL", "INCOHERENT"}
        /\ status_K = "LOCKED" <=> r_final > 900
        /\ status_K = "PARTIAL" <=> (r_final > 500 /\ r_final <= 900)
        /\ status_K = "INCOHERENT" <=> r_final <= 500

\* A run that started incoherent and ended locked: the last steps do not
\* average to what the first steps average to.
C7_Witness ==
    /\ RowPrinted
    /\ status_K = "LOCKED"
    /\ Len(r_history) > TailLen
    /\ r_history[1] <= 500
    /\ SumFrom(r_history, Len(r_history) - TailLen + 1)
         # SumFrom(SubSeq(r_history, 1, TailLen), 1)

\* (K / N) * sum over all j of sin(theta_j - theta_i), on the phases ph
CouplingOn(ph, i) ==
    IF K * SumFrom([j \in Users |-> Sin(ph[j] - ph[i])], 1) >= 0
      THEN (K * SumFrom([j \in Users |-> Sin(ph[j] - ph[i])], 1)) \div N_users
      ELSE -((-(K * SumFrom([j \in Users |-> Sin(ph[j] - ph[i])], 1))) \div N_users)

\* C8: in every time step the coupling term of every oscillator is evaluated
\* on the phase vector as it is at the start of the step, and every phase
\* advances by (omega_i + coupling_i) * dt from its value at the start of
\* the step; recording the order parameter leaves the phases alone.
C8_SynchronousUpdate ==
    [][ /\ kura_pc = "dynamics" =>
             \A i \in Users :
                 /\ coupling'[i] = CouplingOn(theta, i)
                 /\ theta'[i] = theta[i] + (omega[i] + CouplingOn(theta, i)) * dt
        /\ kura_pc = "measure" => theta' = theta ]_vars

\* A step has been taken in which the coupling acted, and the phases it
\* produced give some oscillator a different coupling term than the one used.
C8_Witness ==
    /\ kura_pc = "measure"
    /\ step >= 1
    /\ \E i \in Users : coupling[i] # 0 /\ CouplingOn(theta, i) # coupling[i]

\* C9: the natural frequencies are never modified after they are drawn: no
\* step of any run changes omega.
C9_OmegaFixed == [][omega' = omega]_vars

\* The last time step of the last run has been taken, with natural
\* frequencies that differ between the oscillators.
C9_Witness ==
    /\ run = Len(K_ratio)
    /\ kura_pc = "measure"
    /\ step = steps
    /\ \E i, j \in Users : omega[i] # omega[j]

\* The squared length of the mean phasor of the phases ph, in millionths
MeanPhasorSq(ph) ==
    (1000000 * ( SumFrom([i \in Users |-> Cos2(ph[i])], 1) * SumFrom([i \in Users |-> Cos2(ph[i])], 1)
               + 3 * SumFrom([i \in Users |-> Sin(ph[i])], 1) * SumFrom([i \in Users |-> Sin(ph[i])], 1)))
    \div (4 * N_users * N_users)

\* C10: the order parameter recorded at every step is the magnitude of the
\* mean of the N unit phasors (to the thousandth), lies between 0 and 1, and
\* is 1 exactly when all phases are equal modulo a full turn.
C10_OrderParameter ==
    /\ \A k \in 1 .. Len(r_history) : r_history[k] >= 0 /\ r_history[k] <= 1000
    /\ kura_pc = "dynamics" =>
         /\ r_history[Len(r_history)] = r
         /\ r * r <= MeanPhasorSq(theta)
         /\ MeanPhasorSq(theta) < (r + 1) * (r + 1)
         /\ r = 1000 <=> \A i, j \in Users : (theta[i] - theta[j]) % 6 = 0

\* Full coherence is recorded for phases that differ by a whole turn.
C10_Witness ==
    /\ kura_pc = "dynamics"
    /\ r = 1000
    /\ \E i, j \in Users : theta[i] # theta[j]

\* The phases as they were before the last Kuramoto update
PhasesBeforeUpdate == [i \in Users |-> theta[i] - (omega[i] + coupling[i]) * dt]

\* rv is the magnitude of the mean phasor of the phases ph, to the thousandth
IsCoherenceOf(rv, ph) ==
    rv * rv <= MeanPhasorSq(ph) /\ MeanPhasorSq(ph) < (rv + 1) * (rv + 1)

\* C11: every run takes exactly T_sim / dt time steps and then ends, and the
\* script ends after the last run; the order parameter is recorded once per
\* step, before the phase update of that step, so that the history has one
\* entry per step taken, its first entry is the coherence of the initial
\* phases, and its last entry is the coherence of the phases before the last
\* update, not of the final phases.
C11_OneRecordPerStep ==
    /\ kura_pc = "measure" => Len(r_history) = step /\ step <= T_sim \div dt
    /\ kura_pc = "dynamics" =>
         /\ Len(r_history) = step + 1
         /\ step < T_sim \div dt
         /\ IsCoherenceOf(r_history[step + 1], theta)
    /\ RowPrinted =>
         /\ step = T_sim \div dt
         /\ Len(r_history) = T_sim \div dt
         /\ IsCoherenceOf(r_history[Len(r_history)], PhasesBeforeUpdate)
    /\ kura_pc = "done" => run = Len(K_ratio) + 1 /\ step = T_sim \div dt

\* A run has ended whose final phases have another coherence than the last
\* one recorded.
C11_Witness ==
    /\ RowPrinted
    /\ Len(r_history) = T_sim \div dt
    /\ ~IsCoherenceOf(r_history[Len(r_history)], theta)

(***************************************************************************)
(* Properties of the thermal model                                         *)
(***************************************************************************)
RowComputed == thermal_pc = "done"

\* C14: at a sustained power of 10 mW the temperature rise the script
\* computes, dT = P * R_total with R_total the sum of L / (k A) over the five
\* layers, is below 1 degree C, as the script's conclusion says.
C14_TenMilliwattBelowOneDegree ==
    (RowComputed /\ P_th = 1000) => dT < 100

Severity(s) ==
    CASE s = "SAFE" -> 0 [] s = "CAUTION" -> 1 [] s = "WARNING" -> 2
      [] s = "DANGER" -> 3

\* The severity the four bands give a temperature, written from the bounds.
Band(T) ==
    IF T >= 4800 THEN 3 ELSE IF T >= 4300 THEN 2 ELSE IF T >= 4000 THEN 1 ELSE 0

\* C15: the status of a row depends on T_skin = 33 + dT only: SAFE iff
\* T_skin < 40, CAUTION iff 40 <= T_skin < 43, WARNING iff 43 <= T_skin < 48,
\* DANGER iff T_skin >= 48; a row at or above 43 C is never SAFE or CAUTION,
\* and no power of the table at or below the row's power has a more severe
\* status than the row.
C15_StatusBands ==
    RowComputed =>
        /\ T_skin = BaselineSkin + dT
        /\ status_T = "SAFE" <=> T_skin < 4000
        /\ status_T = "CAUTION" <=> (4000 <= T_skin /\ T_skin < 4300)
        /\ status_T = "WARNING" <=> (4300 <= T_skin /\ T_skin < 4800)
        /\ status_T = "DANGER" <=> T_skin >= 4800
        /\ T_skin >= 4300 => status_T \notin {"SAFE", "CAUTION"}
        /\ \A n \in 1 .. Len(powers_mW) :
              powers_mW[n] <= P_th =>
                  Band(BaselineSkin + TempRise(powers_mW[n], R_total))
                      <= Severity(status_T)

\* A row whose skin temperature is exactly 43 C.
C15_Witness == RowComputed /\ T_skin = 4300 /\ status_T = "WARNING"

(***************************************************************************)
(* Properties of the power budget                                          *)
(***************************************************************************)
\* The powers of the rows n, n + 1, ... of a table, added up.
RECURSIVE PowerFrom(_, _)
PowerFrom(table, n) ==
    IF n > Len(table) THEN 0 ELSE table[n].P_uW + PowerFrom(table, n + 1)

IsHarvest(s) == s.type = "harvest"

BudgetPrinted == budget_pc = "done"

\* C16: total harvest is the sum of P_uW over the sources of type "harvest"
\* only, total average sink is the sum of P_uW over all sinks, the margin is
\* their difference, and the margin is labelled "(OK)" iff it is positive and
\* "(DEFICIT)" otherwise, a margin of exactly 0 included.
C16_BudgetMargin ==
    BudgetPrinted =>
        /\ total_harvest = PowerFrom(SelectSeq(sources, IsHarvest), 1)
        /\ total_sink_avg = PowerFrom(sinks, 1)
        /\ margin = total_harvest - total_sink_avg
        /\ margin_label = "(OK)" <=> margin > 0
        /\ margin_label = "(DEFICIT)" <=> margin <= 0

\* A budget with the storage reserve among its sources and a margin of zero.
C16_Witness ==
    /\ BudgetPrinted
    /\ \E n \in 1 .. Len(sources) : sources[n].type = "storage"
    /\ total_harvest > 0
    /\ margin = 0
    /\ margin_label = "(DEFICIT)"

(***************************************************************************)
(* Properties of the memory map                                            *)
(***************************************************************************)
\* The number a sequence of hexadecimal digits writes.
RECURSIVE HexValue(_)
HexValue(digits) ==
    IF digits = <<>> THEN 0
    ELSE 16 * HexValue(SubSeq(digits, 1, Len(digits) - 1)) + digits[Len(digits)]

\* The fields of a 24-bit address [NodeType:4][NodeID:4][LocalAddr:16].
NodeTypeOf(a) == a \div 1048576
NodeIDOf(a) == (a \div 65536) % 16
LocalAddrOf(a) == a % 65536

TypeCode(name) ==
    CASE name = "SensorNode" -> 0 [] name = "ComputeNode" -> 1
      [] name = "PowerNode" -> 2 [] name = "MeshRouter" -> 3

FollowsFormat(e) ==
    /\ NodeTypeOf(HexValue(e.lo)) = TypeCode(e.node)
    /\ NodeTypeOf(HexValue(e.hi)) = TypeCode(e.node)
    /\ NodeIDOf(HexValue(e.lo)) = e.index
    /\ NodeIDOf(HexValue(e.hi)) = e.index
    /\ LocalAddrOf(HexValue(e.lo)) = 0
    /\ LocalAddrOf(HexValue(e.hi)) = 65535
    /\ HexValue(e.hi) - HexValue(e.lo) = 65535

\* C17: every printed entry of the address map follows the 24-bit format
\* [NodeType:4][NodeID:4][LocalAddr:16]: in both bounds of its range the upper
\* 4 bits are the node's type code, the next 4 bits the node's index within
\* its type, and the range spans exactly the local addresses 0x0000-0xFFFF.
C17_AddressFormat ==
    \A n \in 1 .. Len(printed) : FollowsFormat(printed[n])

\* The sum of a sequence of numbers.
RECURSIVE Total(_)
Total(xs) == IF xs = <<>> THEN 0 ELSE Head(xs) + Total(Tail(xs))

TotalsPrinted == memory_pc \in {"map", "done"}

\* C18: after the loop over the node types total_nodes is the sum of the
\* counts, total_sram, total_flash and total_mram are the sums of count times
\* the per-node size, and total_all is their sum and equals the sum of count
\* times the per-node total printed in each row of the table.
C18_MemoryTotals ==
    TotalsPrinted =>
        /\ total_nodes = Total([n \in 1 .. Len(nodes) |-> nodes[n].count])
        /\ total_sram = Total([n \in 1 .. Len(nodes) |-> nodes[n].count * nodes[n].sram_KB])
        /\ total_flash = Total([n \in 1 .. Len(nodes) |-> nodes[n].count * nodes[n].flash_KB])
        /\ total_mram = Total([n \in 1 .. Len(nodes) |-> nodes[n].count * nodes[n].mram_KB])
        /\ total_all = total_sram + total_flash + total_mram
        /\ total_all = Total([n \in 1 .. Len(nodes) |-> nodes[n].count *
                 (nodes[n].sram_KB + nodes[n].flash_KB + nodes[n].mram_KB)])
        /\ Len(table_rows) = Len(nodes)
        /\ total_all = Total([n \in 1 .. Len(table_rows) |->
                                table_rows[n].count * table_rows[n].total_per])

\* The script's own table: 24 nodes, 24128 KB, 8192 KB of it MRAM.
C18_Witness ==
    /\ TotalsPrinted
    /\ nodes = AllNodes
    /\ total_nodes = 24
    /\ total_mram = 8192
    /\ total_all = 24128

(***************************************************************************)
(* Properties of the harvest budget                                        *)
(***************************************************************************)
IsReal(h) == h.real

HarvestPrinted == harvest_pc = "done"

\* The whole microwatts of the rows flagged real, added up.
RealPower == LET rows == SelectSeq(harvest, IsReal)
             IN  Total([n \in 1 .. Len(rows) |-> rows[n].P_uW.uW])

\* C19: a source is marked "YES" and "PROVEN" iff it is flagged real and has
\* positive power; every source flagged not real is marked "NO" and
\* "THEORETICAL", and the three printed totals are computed from the rows
\* flagged real alone.
C19_OnlyRealSourcesCount ==
    HarvestPrinted =>
        /\ Len(harvest_rows) = Len(harvest)
        /\ \A n \in 1 .. Len(harvest) :
              LET h == harvest[n]
                  isProven == h.real /\ (h.P_uW.uW > 0 \/ h.P_uW.e7 > 0)
              IN  /\ harvest_rows[n].harv = "YES" <=> isProven
                  /\ harvest_rows[n].status = "PROVEN" <=> isProven
                  /\ ~h.real => /\ harvest_rows[n].harv = "NO"
                                /\ harvest_rows[n].status = "THEORETICAL"
        /\ total_real = [uW |-> RealPower, e7 |-> 0]
        /\ totals = <<RealPower - 50100, RealPower - 50000, RealPower>>

\* The script's own table, the CMB row of 10^-7 uW included: 140, 240 and
\* 50240 uW.
C19_Witness ==
    /\ HarvestPrinted
    /\ harvest = AllHarvest
    /\ harvest_rows[6] = [name |-> "CMB capture", harv |-> "NO", status |-> "THEORETICAL"]
    /\ totals = <<140, 240, 50240>>

(***************************************************************************)
(* Properties of the Paschen table                                         *)
(***************************************************************************)
VoltagePrinted == paschen_pc = "done"

\* C20: for every gap width the reported breakdown voltage is at least the
\* Paschen minimum of 327 V, hence never negative and never below 300 V,
\* whichever branch of the p*d test is taken and whatever the sign of the
\* denominator ln(A p d) - ln(ln(1 + 1/gamma)).
C20_AtLeastPaschenMinimum ==
    VoltagePrinted => (V_break.inf \/ V_break.volts >= 327)

\* A gap of the sweep (1 micrometre) on the Paschen branch whose denominator
\* is negative: the quotient is negative and the row reads 327 V.
C20_Witness ==
    /\ VoltagePrinted
    /\ d_um = 10
    /\ Pd(d_um) > 1000
    /\ Denominator(d_um) < 0
    /\ Quotient(d_um).volts < 0
    /\ V_break = [inf |-> FALSE, volts |-> 327]

(***************************************************************************)
(* Properties of the scripts run side by side                              *)
(***************************************************************************)
\* A step that changes a variable of one script changes no variable of any
\* other script.
OneScriptSteps ==
    /\ thermalVars' # thermalVars =>
           UNCHANGED <<gridVars, reportVars, kuraVars, budgetVars, memoryVars,
                       harvestVars, paschenVars, sweepVars>>
    /\ budgetVars' # budgetVars =>
           UNCHANGED <<gridVars, reportVars, kuraVars, thermalVars, memoryVars,
                       harvestVars, paschenVars, sweepVars>>
    /\ memoryVars' # memoryVars =>
           UNCHANGED <<gridVars, reportVars, kuraVars, thermalVars, budgetVars,
                       harvestVars, paschenVars, sweepVars>>
    /\ harvestVars' # harvestVars =>
           UNCHANGED <<gridVars, reportVars, kuraVars, thermalVars, budgetVars,
                       memoryVars, paschenVars, sweepVars>>
    /\ paschenVars' # paschenVars =>
           UNCHANGED <<gridVars, reportVars, kuraVars, thermalVars, budgetVars,
                       memoryVars, harvestVars, sweepVars>>

\* What each script prints when it runs alone.
ThermalAlone(P) ==
    CASE P = 1 -> <<0, "SAFE">>       [] P = 5 -> <<1, "SAFE">>
      [] P = 10 -> <<2, "SAFE">>      [] P = 50 -> <<12, "SAFE">>
      [] P = 100 -> <<24, "SAFE">>    [] P = 500 -> <<120, "SAFE">>
      [] P = 1000 -> <<241, "SAFE">>  [] P = 5000 -> <<1206, "WARNING">>
      [] P = 10000 -> <<2413, "DANGER">>

PaschenAlone(d) ==
    CASE d = 10 -> 327     [] d = 50 -> 655    [] d = 100 -> 327
      [] d = 500 -> 551    [] d = 1000 -> 865  [] d = 5000 -> 2879
      [] d = 10000 -> 5035

OutputsAsAlone ==
    /\ thermal_pc \in {"row", "done"} => R_total = 24134
    /\ thermal_pc = "done" => <<dT, status_T>> = ThermalAlone(P_th)
    /\ budget_pc = "done" =>
           /\ <<total_harvest, total_sink_avg, margin>> = <<19500, 51475, -31975>>
           /\ margin_label = "(DEFICIT)"
    /\ memory_pc \in {"map", "done"} =>
           <<total_nodes, total_sram, total_flash, total_mram, total_all>>
               = <<24, 2112, 13824, 8192, 24128>>
    /\ memory_pc = "done" => printed = addr_map
    /\ harvest_pc = "done" => totals = <<140, 240, 50240>>
    /\ paschen_pc = "done" => V_break = [inf |-> FALSE, volts |-> PaschenAlone(d_um)]

AtpRowPrinted == atp_pc = "done"

\* C21: the biological amplification computed for each stimulation power
\* lies between 10^4 and 10^6, as the module text says, and the number of ATP
\* triggered is min(floor(36 P / 10), 10000).
C21_AmplificationRange ==
    AtpRowPrinted =>
        /\ amplification.whole >= 10000
        /\ amplification.whole < 1000000
               \/ amplification = [whole |-> 1000000, e15 |-> 0]
        /\ \/ n_atp = 10000 /\ 36 * P_stim >= 10 * 10000
           \/ /\ n_atp < 10000
              /\ 10 * n_atp <= 36 * P_stim
              /\ 36 * P_stim < 10 * (n_atp + 1)

(***************************************************************************)
(* Properties of the stochastic resonance sweep                            *)
(***************************************************************************)
\* The script's own sweep has been printed.
SweepPrinted == sr_pc = "done" /\ D_values = AllD_values

\* rate(D1) exp(-D1) < rate(D2) exp(-D2), that is
\* 25 / D1 + D1 / 100 > 25 / D2 + D2 / 100 for noise levels in hundredths.
ProxyBelow(D1, D2) == (2500 + D1 * D1) * D2 > (2500 + D2 * D2) * D1

FirstMaximum(n) ==
    /\ \A m \in 1 .. Len(D_values) : ~ProxyBelow(D_values[n], D_values[m])
    /\ \A m \in 1 .. n - 1 : ProxyBelow(D_values[m], D_values[n])

\* C22: the D_optimal reported as "Optimal noise level" is the first D of the
\* sweep that attains the maximum of the SNR proxy rate(D) * exp(-D), and the
\* row that carries the status "OPTIMAL" is the row of that D_optimal.
C22_OptimalRow ==
    SweepPrinted =>
        /\ \E n \in 1 .. Len(D_values) : D_values[n] = D_optimal /\ FirstMaximum(n)
        /\ \A n \in 1 .. Len(sr_rows) :
              sr_rows[n].status = "OPTIMAL" <=> sr_rows[n].D = D_optimal

====
